---- MODULE Spec2Model ----
(***************************************************************************)
(* Model of InMemoryRoomManager (src/src/domain/rooms/RoomManager.ts): the  *)
(* in-memory registry of rooms, their players, owner and flags.            *)
(*                                                                         *)
(* A JavaScript Map is modelled as a sequence of entries [k, v] kept in    *)
(* insertion order: set() of a present key replaces the value in place,    *)
(* set() of a new key appends, delete() removes the entry.                 *)
(* The write-once fields name, password and createdAt are never read by    *)
(* the registry and are left out of the Room record.                       *)
(***************************************************************************)
EXTENDS Integers, Sequences, FiniteSets, TLC

VARIABLES rooms, lastCall, mutations

vars == <<rooms, lastCall, mutations>>

(* ---------------- bounds of the model ---------------- *)
MaxUser == 3
MaxCap == 2
MaxMutations == 4

RoomIds == {"r1", "r2"}
UserIds == 1..MaxUser
Payloads == {[user |-> "a", connectionId |-> "c1"], [user |-> "b", connectionId |-> "c2"]}
OwnerPayloads == {[user |-> "a", connectionId |-> "c1"]}
RoomStates == {"SelectChart", "Playing"}
MaxPlayersOptions == {<<>>} \cup {<<n>> : n \in 1..MaxCap}

DefaultMaxPlayers == 8

(* ---------------- Map<K, V> in insertion order ---------------- *)
MapHas(m, k) == \E i \in 1..Len(m) : m[i].k = k

MapIndex(m, k) == CHOOSE i \in 1..Len(m) : m[i].k = k

MapGet(m, k) == m[MapIndex(m, k)].v

MapSet(m, k, v) ==
  IF MapHas(m, k)
    THEN [m EXCEPT ![MapIndex(m, k)] = [k |-> k, v |-> v]]
    ELSE Append(m, [k |-> k, v |-> v])

MapDelete(m, k) ==
  IF MapHas(m, k)
    THEN [i \in 1..(Len(m) - 1) |-> IF i < MapIndex(m, k) THEN m[i] ELSE m[i + 1]]
    ELSE m

MapSize(m) == Len(m)

MapKeys(m) == [i \in 1..Len(m) |-> m[i].k]

MapValues(m) == [i \in 1..Len(m) |-> m[i].v]

(* ---------------- results of a call ---------------- *)
(* result: "true" | "false" | "throw" | "room" | "undefined" | "void" |    *)
(* "number" | "list"; ret: ids of the Room records returned; num: the      *)
(* number returned by count(); log: messages handed to the logger.         *)
Outcome(rs, result, ret, num, log) ==
  [rooms |-> rs, result |-> result, ret |-> ret, num |-> num, log |-> log]

(* ---------------- the methods ---------------- *)
(* createRoom without the duplicate check: the new room replaces the old.   *)
createRoom_Overwrites(rs, id, ownerId, payload, maxPlayersOpt) ==
  LET maxPlayers == IF maxPlayersOpt = <<>> THEN DefaultMaxPlayers ELSE maxPlayersOpt[1]
      players == MapSet(<<>>, ownerId,
                        [user |-> payload.user, connectionId |-> payload.connectionId,
                         isReady |-> FALSE])
      room == [id |-> id, ownerId |-> ownerId, players |-> players,
               maxPlayers |-> maxPlayers, state |-> "SelectChart",
               locked |-> FALSE, cycle |-> FALSE, live |-> TRUE]
  IN Outcome(MapSet(rs, id, room), "room", <<id>>, 0, <<"Room created">>)

(* createRoom that drops the maxPlayers option: every room gets the default. *)
createRoom_IgnoresMaxPlayers(rs, id, ownerId, payload, maxPlayersOpt) ==
  LET players == MapSet(<<>>, ownerId,
                        [user |-> payload.user, connectionId |-> payload.connectionId,
                         isReady |-> FALSE])
      room == [id |-> id, ownerId |-> ownerId, players |-> players,
               maxPlayers |-> DefaultMaxPlayers, state |-> "SelectChart",
               locked |-> FALSE, cycle |-> FALSE, live |-> TRUE]
  IN IF MapHas(rs, id)
       THEN Outcome(rs, "throw", <<>>, 0, <<>>)
       ELSE Outcome(MapSet(rs, id, room), "room", <<id>>, 0, <<"Room created">>)

(* createRoom whose room starts locked.                                    *)
createRoom_StartsLocked(rs, id, ownerId, payload, maxPlayersOpt) ==
  LET maxPlayers == IF maxPlayersOpt = <<>> THEN DefaultMaxPlayers ELSE maxPlayersOpt[1]
      players == MapSet(<<>>, ownerId,
                        [user |-> payload.user, connectionId |-> payload.connectionId,
                         isReady |-> FALSE])
      room == [id |-> id, ownerId |-> ownerId, players |-> players,
               maxPlayers |-> maxPlayers, state |-> "SelectChart",
               locked |-> TRUE, cycle |-> FALSE, live |-> TRUE]
  IN IF MapHas(rs, id)
       THEN Outcome(rs, "throw", <<>>, 0, <<>>)
       ELSE Outcome(MapSet(rs, id, room), "room", <<id>>, 0, <<"Room created">>)

createRoom(rs, id, ownerId, payload, maxPlayersOpt) ==
  LET maxPlayers == IF maxPlayersOpt = <<>> THEN DefaultMaxPlayers ELSE maxPlayersOpt[1]
      players == MapSet(<<>>, ownerId,
                        [user |-> payload.user, connectionId |-> payload.connectionId,
                         isReady |-> FALSE])
      room == [id |-> id, ownerId |-> ownerId, players |-> players,
               maxPlayers |-> maxPlayers, state |-> "SelectChart",
               locked |-> FALSE, cycle |-> FALSE, live |-> TRUE]
  IN IF MapHas(rs, id)
       THEN Outcome(rs, "throw", <<>>, 0, <<>>)
       ELSE Outcome(MapSet(rs, id, room), "room", <<id>>, 0, <<"Room created">>)

getRoom(rs, id) ==
  IF MapHas(rs, id)
    THEN Outcome(rs, "room", <<id>>, 0, <<>>)
    ELSE Outcome(rs, "undefined", <<>>, 0, <<>>)

(* deleteRoom that reports the removal without performing it.              *)
deleteRoom_KeepsRoom(rs, id) ==
  IF MapHas(rs, id)
    THEN Outcome(rs, "true", <<>>, 0, <<"Room deleted">>)
    ELSE Outcome(rs, "false", <<>>, 0, <<>>)

(* deleteRoom that refuses a room which still holds several players.       *)
deleteRoom_SparesCrowded(rs, id) ==
  IF MapHas(rs, id) /\ MapSize(MapGet(rs, id).players) <= 1
    THEN Outcome(MapDelete(rs, id), "true", <<>>, 0, <<"Room deleted">>)
    ELSE Outcome(rs, "false", <<>>, 0, <<>>)

deleteRoom(rs, id) ==
  IF MapHas(rs, id)
    THEN Outcome(MapDelete(rs, id), "true", <<>>, 0, <<"Room deleted">>)
    ELSE Outcome(rs, "false", <<>>, 0, <<>>)

listRooms(rs) == Outcome(rs, "list", MapKeys(rs), 0, <<>>)

count(rs) == Outcome(rs, "number", <<>>, MapSize(rs), <<>>)

(* addPlayerToRoom with `>` for `>=` in the capacity test.                 *)
addPlayerToRoom_OffByOne(rs, roomId, userId, payload) ==
  IF ~MapHas(rs, roomId)
    THEN Outcome(rs, "false", <<>>, 0, <<"Cannot add player to non-existent room">>)
    ELSE LET room == MapGet(rs, roomId)
         IN IF MapSize(room.players) > room.maxPlayers
              THEN Outcome(rs, "false", <<>>, 0, <<"Cannot add player to full room">>)
              ELSE IF room.locked
                THEN Outcome(rs, "false", <<>>, 0, <<"Cannot add player to locked room">>)
                ELSE Outcome(
                       MapSet(rs, roomId,
                              [room EXCEPT !.players =
                                 MapSet(room.players, userId,
                                        [user |-> payload.user,
                                         connectionId |-> payload.connectionId,
                                         isReady |-> FALSE])]),
                       "true", <<>>, 0, <<"Player added to room">>)

(* addPlayerToRoom without the capacity test.                              *)
addPlayerToRoom_NoCapacityCheck(rs, roomId, userId, payload) ==
  IF ~MapHas(rs, roomId)
    THEN Outcome(rs, "false", <<>>, 0, <<"Cannot add player to non-existent room">>)
    ELSE LET room == MapGet(rs, roomId)
         IN IF FALSE
              THEN Outcome(rs, "false", <<>>, 0, <<"Cannot add player to full room">>)
              ELSE IF room.locked
                THEN Outcome(rs, "false", <<>>, 0, <<"Cannot add player to locked room">>)
                ELSE Outcome(
                       MapSet(rs, roomId,
                              [room EXCEPT !.players =
                                 MapSet(room.players, userId,
                                        [user |-> payload.user,
                                         connectionId |-> payload.connectionId,
                                         isReady |-> FALSE])]),
                       "true", <<>>, 0, <<"Player added to room">>)

(* addPlayerToRoom without the lock test.                                  *)
addPlayerToRoom_IgnoresLock(rs, roomId, userId, payload) ==
  IF ~MapHas(rs, roomId)
    THEN Outcome(rs, "false", <<>>, 0, <<"Cannot add player to non-existent room">>)
    ELSE LET room == MapGet(rs, roomId)
         IN IF MapSize(room.players) >= room.maxPlayers
              THEN Outcome(rs, "false", <<>>, 0, <<"Cannot add player to full room">>)
              ELSE IF FALSE
                THEN Outcome(rs, "false", <<>>, 0, <<"Cannot add player to locked room">>)
                ELSE Outcome(
                       MapSet(rs, roomId,
                              [room EXCEPT !.players =
                                 MapSet(room.players, userId,
                                        [user |-> payload.user,
                                         connectionId |-> payload.connectionId,
                                         isReady |-> FALSE])]),
                       "true", <<>>, 0, <<"Player added to room">>)

(* addPlayerToRoom that keeps the entry of a user who is already a member.  *)
addPlayerToRoom_KeepsExisting(rs, roomId, userId, payload) ==
  IF ~MapHas(rs, roomId)
    THEN Outcome(rs, "false", <<>>, 0, <<"Cannot add player to non-existent room">>)
    ELSE LET room == MapGet(rs, roomId)
         IN IF MapSize(room.players) >= room.maxPlayers
              THEN Outcome(rs, "false", <<>>, 0, <<"Cannot add player to full room">>)
              ELSE IF room.locked
                THEN Outcome(rs, "false", <<>>, 0, <<"Cannot add player to locked room">>)
                ELSE IF MapHas(room.players, userId)
                  THEN Outcome(rs, "true", <<>>, 0, <<"Player added to room">>)
                  ELSE Outcome(
                         MapSet(rs, roomId,
                                [room EXCEPT !.players =
                                   MapSet(room.players, userId,
                                          [user |-> payload.user,
                                           connectionId |-> payload.connectionId,
                                           isReady |-> FALSE])]),
                         "true", <<>>, 0, <<"Player added to room">>)

(* addPlayerToRoom that lets a current member through the capacity and     *)
(* lock tests, since re-adding does not raise the occupancy.               *)
addPlayerToRoom_ReaddBypasses(rs, roomId, userId, payload) ==
  IF ~MapHas(rs, roomId)
    THEN Outcome(rs, "false", <<>>, 0, <<"Cannot add player to non-existent room">>)
    ELSE LET room == MapGet(rs, roomId)
         IN IF ~MapHas(room.players, userId) /\ MapSize(room.players) >= room.maxPlayers
              THEN Outcome(rs, "false", <<>>, 0, <<"Cannot add player to full room">>)
              ELSE IF ~MapHas(room.players, userId) /\ room.locked
                THEN Outcome(rs, "false", <<>>, 0, <<"Cannot add player to locked room">>)
                ELSE Outcome(
                       MapSet(rs, roomId,
                              [room EXCEPT !.players =
                                 MapSet(room.players, userId,
                                        [user |-> payload.user,
                                         connectionId |-> payload.connectionId,
                                         isReady |-> FALSE])]),
                       "true", <<>>, 0, <<"Player added to room">>)

addPlayerToRoom(rs, roomId, userId, payload) ==
  IF ~MapHas(rs, roomId)
    THEN Outcome(rs, "false", <<>>, 0, <<"Cannot add player to non-existent room">>)
    ELSE LET room == MapGet(rs, roomId)
         IN IF MapSize(room.players) >= room.maxPlayers
              THEN Outcome(rs, "false", <<>>, 0, <<"Cannot add player to full room">>)
              ELSE IF room.locked
                THEN Outcome(rs, "false", <<>>, 0, <<"Cannot add player to locked room">>)
                ELSE Outcome(
                       MapSet(rs, roomId,
                              [room EXCEPT !.players =
                                 MapSet(room.players, userId,
                                        [user |-> payload.user,
                                         connectionId |-> payload.connectionId,
                                         isReady |-> FALSE])]),
                       "true", <<>>, 0, <<"Player added to room">>)

(* changeRoomOwner without the membership test.                            *)
changeRoomOwner_NoMemberCheck(rs, roomId, newOwnerId) ==
  IF ~MapHas(rs, roomId)
    THEN Outcome(rs, "false", <<>>, 0, <<>>)
    ELSE Outcome(MapSet(rs, roomId, [MapGet(rs, roomId) EXCEPT !.ownerId = newOwnerId]),
                 "true", <<>>, 0, <<"Room owner changed">>)

(* changeRoomOwner that tests the membership of the current owner instead  *)
(* of the new one.                                                         *)
changeRoomOwner_ChecksOldOwner(rs, roomId, newOwnerId) ==
  IF ~MapHas(rs, roomId)
       \/ ~MapHas(MapGet(rs, roomId).players, MapGet(rs, roomId).ownerId)
    THEN Outcome(rs, "false", <<>>, 0, <<>>)
    ELSE Outcome(MapSet(rs, roomId, [MapGet(rs, roomId) EXCEPT !.ownerId = newOwnerId]),
                 "true", <<>>, 0, <<"Room owner changed">>)

changeRoomOwner(rs, roomId, newOwnerId) ==
  IF ~MapHas(rs, roomId) \/ ~MapHas(MapGet(rs, roomId).players, newOwnerId)
    THEN Outcome(rs, "false", <<>>, 0, <<>>)
    ELSE Outcome(MapSet(rs, roomId, [MapGet(rs, roomId) EXCEPT !.ownerId = newOwnerId]),
                 "true", <<>>, 0, <<"Room owner changed">>)

(* removePlayerFromRoom without the owner succession.                      *)
removePlayerFromRoom_KeepsOwner(rs, roomId, userId) ==
  IF ~MapHas(rs, roomId)
    THEN Outcome(rs, "false", <<>>, 0, <<>>)
    ELSE LET room == MapGet(rs, roomId)
             removed == MapHas(room.players, userId)
             left == MapDelete(room.players, userId)
             rs1 == MapSet(rs, roomId, [room EXCEPT !.players = left])
         IN IF ~removed
              THEN Outcome(rs, "false", <<>>, 0, <<>>)
              ELSE IF MapSize(left) = 0
                THEN Outcome(deleteRoom(rs1, roomId).rooms, "true", <<>>, 0,
                             <<"Player removed from room">> \o deleteRoom(rs1, roomId).log)
                ELSE Outcome(rs1, "true", <<>>, 0, <<"Player removed from room">>)

(* removePlayerFromRoom without the cascading deletion of an empty room.   *)
removePlayerFromRoom_NoCascade(rs, roomId, userId) ==
  IF ~MapHas(rs, roomId)
    THEN Outcome(rs, "false", <<>>, 0, <<>>)
    ELSE LET room == MapGet(rs, roomId)
             removed == MapHas(room.players, userId)
             left == MapDelete(room.players, userId)
             rs1 == MapSet(rs, roomId, [room EXCEPT !.players = left])
         IN IF ~removed
              THEN Outcome(rs, "false", <<>>, 0, <<>>)
              ELSE IF MapSize(left) > 0 /\ room.ownerId = userId
                THEN Outcome(changeRoomOwner(rs1, roomId, MapKeys(left)[1]).rooms,
                             "true", <<>>, 0,
                             <<"Player removed from room">>
                               \o changeRoomOwner(rs1, roomId, MapKeys(left)[1]).log)
                ELSE Outcome(rs1, "true", <<>>, 0, <<"Player removed from room">>)

(* removePlayerFromRoom that hands ownership to the last remaining key.    *)
removePlayerFromRoom_NewestSucceeds(rs, roomId, userId) ==
  IF ~MapHas(rs, roomId)
    THEN Outcome(rs, "false", <<>>, 0, <<>>)
    ELSE LET room == MapGet(rs, roomId)
             removed == MapHas(room.players, userId)
             left == MapDelete(room.players, userId)
             rs1 == MapSet(rs, roomId, [room EXCEPT !.players = left])
         IN IF ~removed
              THEN Outcome(rs, "false", <<>>, 0, <<>>)
              ELSE IF MapSize(left) = 0
                THEN Outcome(deleteRoom(rs1, roomId).rooms, "true", <<>>, 0,
                             <<"Player removed from room">> \o deleteRoom(rs1, roomId).log)
                ELSE IF room.ownerId = userId
                  THEN Outcome(changeRoomOwner(rs1, roomId, MapKeys(left)[Len(left)]).rooms,
                               "true", <<>>, 0,
                               <<"Player removed from room">>
                                 \o changeRoomOwner(rs1, roomId, MapKeys(left)[Len(left)]).log)
                  ELSE Outcome(rs1, "true", <<>>, 0, <<"Player removed from room">>)

(* removePlayerFromRoom without the test that the removed player was the   *)
(* owner: every removal that leaves players promotes the newest of them.   *)
removePlayerFromRoom_PromotesNewest(rs, roomId, userId) ==
  IF ~MapHas(rs, roomId)
    THEN Outcome(rs, "false", <<>>, 0, <<>>)
    ELSE LET room == MapGet(rs, roomId)
             removed == MapHas(room.players, userId)
             left == MapDelete(room.players, userId)
             rs1 == MapSet(rs, roomId, [room EXCEPT !.players = left])
         IN IF ~removed
              THEN Outcome(rs, "false", <<>>, 0, <<>>)
              ELSE IF MapSize(left) = 0
                THEN Outcome(deleteRoom(rs1, roomId).rooms, "true", <<>>, 0,
                             <<"Player removed from room">> \o deleteRoom(rs1, roomId).log)
                ELSE Outcome(changeRoomOwner(rs1, roomId, MapKeys(left)[Len(left)]).rooms,
                             "true", <<>>, 0,
                             <<"Player removed from room">>
                               \o changeRoomOwner(rs1, roomId, MapKeys(left)[Len(left)]).log)

removePlayerFromRoom(rs, roomId, userId) ==
  IF ~MapHas(rs, roomId)
    THEN Outcome(rs, "false", <<>>, 0, <<>>)
    ELSE LET room == MapGet(rs, roomId)
             removed == MapHas(room.players, userId)
             left == MapDelete(room.players, userId)
             rs1 == MapSet(rs, roomId, [room EXCEPT !.players = left])
         IN IF ~removed
              THEN Outcome(rs, "false", <<>>, 0, <<>>)
              ELSE IF MapSize(left) = 0
                THEN Outcome(deleteRoom(rs1, roomId).rooms, "true", <<>>, 0,
                             <<"Player removed from room">> \o deleteRoom(rs1, roomId).log)
                ELSE IF room.ownerId = userId
                  THEN Outcome(changeRoomOwner(rs1, roomId, MapKeys(left)[1]).rooms,
                               "true", <<>>, 0,
                               <<"Player removed from room">>
                                 \o changeRoomOwner(rs1, roomId, MapKeys(left)[1]).log)
                  ELSE Outcome(rs1, "true", <<>>, 0, <<"Player removed from room">>)

RECURSIVE FirstRoomWith(_, _, _)
FirstRoomWith(rs, userId, i) ==
  IF i > Len(rs) THEN <<>>
  ELSE IF MapHas(rs[i].v.players, userId) THEN <<rs[i].k>>
  ELSE FirstRoomWith(rs, userId, i + 1)

RECURSIVE LastRoomWith(_, _, _)
LastRoomWith(rs, userId, i) ==
  IF i < 1 THEN <<>>
  ELSE IF MapHas(rs[i].v.players, userId) THEN <<rs[i].k>>
  ELSE LastRoomWith(rs, userId, i - 1)

(* getRoomByUserId that returns the last room holding the user.            *)
getRoomByUserId_LastMatch(rs, userId) ==
  IF LastRoomWith(rs, userId, Len(rs)) = <<>>
    THEN Outcome(rs, "undefined", <<>>, 0, <<>>)
    ELSE Outcome(rs, "room", LastRoomWith(rs, userId, Len(rs)), 0, <<>>)

getRoomByUserId(rs, userId) ==
  IF FirstRoomWith(rs, userId, 1) = <<>>
    THEN Outcome(rs, "undefined", <<>>, 0, <<>>)
    ELSE Outcome(rs, "room", FirstRoomWith(rs, userId, 1), 0, <<>>)

setRoomState(rs, roomId, state) ==
  IF ~MapHas(rs, roomId)
    THEN Outcome(rs, "false", <<>>, 0, <<>>)
    ELSE Outcome(MapSet(rs, roomId, [MapGet(rs, roomId) EXCEPT !.state = state]),
                 "true", <<>>, 0, <<"Room state changed">>)

setRoomLocked(rs, roomId, locked) ==
  IF ~MapHas(rs, roomId)
    THEN Outcome(rs, "false", <<>>, 0, <<>>)
    ELSE Outcome(MapSet(rs, roomId, [MapGet(rs, roomId) EXCEPT !.locked = locked]),
                 "true", <<>>, 0, <<"Room lock changed">>)

setRoomCycle(rs, roomId, cycle) ==
  IF ~MapHas(rs, roomId)
    THEN Outcome(rs, "false", <<>>, 0, <<>>)
    ELSE Outcome(MapSet(rs, roomId, [MapGet(rs, roomId) EXCEPT !.cycle = cycle]),
                 "true", <<>>, 0, <<"Room cycle changed">>)

(* setPlayerReady without the player test: writing isReady of an absent    *)
(* entry raises a TypeError.                                               *)
setPlayerReady_NoPlayerCheck(rs, roomId, userId, ready) ==
  IF ~MapHas(rs, roomId)
    THEN Outcome(rs, "false", <<>>, 0, <<>>)
    ELSE LET room == MapGet(rs, roomId)
         IN IF ~MapHas(room.players, userId)
              THEN Outcome(rs, "throw", <<>>, 0, <<>>)
              ELSE Outcome(
                     MapSet(rs, roomId,
                            [room EXCEPT !.players =
                               MapSet(room.players, userId,
                                      [MapGet(room.players, userId) EXCEPT !.isReady = ready])]),
                     "true", <<>>, 0, <<"Player ready state changed">>)

(* setPlayerReady that writes the flag of every player of the room.        *)
setPlayerReady_MarksAll(rs, roomId, userId, ready) ==
  IF ~MapHas(rs, roomId)
    THEN Outcome(rs, "false", <<>>, 0, <<>>)
    ELSE LET room == MapGet(rs, roomId)
         IN IF ~MapHas(room.players, userId)
              THEN Outcome(rs, "false", <<>>, 0, <<>>)
              ELSE Outcome(
                     MapSet(rs, roomId,
                            [room EXCEPT !.players =
                               [i \in 1..Len(room.players) |->
                                  [k |-> room.players[i].k,
                                   v |-> [room.players[i].v EXCEPT !.isReady = ready]]]]),
                     "true", <<>>, 0, <<"Player ready state changed">>)

setPlayerReady(rs, roomId, userId, ready) ==
  IF ~MapHas(rs, roomId)
    THEN Outcome(rs, "false", <<>>, 0, <<>>)
    ELSE LET room == MapGet(rs, roomId)
         IN IF ~MapHas(room.players, userId)
              THEN Outcome(rs, "false", <<>>, 0, <<>>)
              ELSE Outcome(
                     MapSet(rs, roomId,
                            [room EXCEPT !.players =
                               MapSet(room.players, userId,
                                      [MapGet(room.players, userId) EXCEPT !.isReady = ready])]),
                     "true", <<>>, 0, <<"Player ready state changed">>)

isRoomOwner(rs, roomId, userId) ==
  IF MapHas(rs, roomId) /\ MapGet(rs, roomId).ownerId = userId
    THEN Outcome(rs, "true", <<>>, 0, <<>>)
    ELSE Outcome(rs, "false", <<>>, 0, <<>>)

RECURSIVE DeleteAll(_, _)
DeleteAll(rs, ids) ==
  IF ids = <<>> THEN rs ELSE DeleteAll(deleteRoom(rs, Head(ids)).rooms, Tail(ids))

EmptyRoomIds(rs) == SelectSeq(MapKeys(rs), LAMBDA id : MapSize(MapGet(rs, id).players) = 0)

(* cleanupEmptyRooms whose test is size <= 1: it sweeps rooms that hold     *)
(* one player.                                                             *)
cleanupEmptyRooms_SweepsSingles(rs) ==
  Outcome(DeleteAll(rs, SelectSeq(MapKeys(rs),
                                  LAMBDA id : MapSize(MapGet(rs, id).players) <= 1)),
          "void", <<>>, 0, <<"Empty rooms cleaned up">>)

cleanupEmptyRooms(rs) ==
  Outcome(DeleteAll(rs, EmptyRoomIds(rs)), "void", <<>>, 0,
          IF Len(EmptyRoomIds(rs)) > 0 THEN <<"Empty rooms cleaned up">> ELSE <<>>)

(* ---------------- the state machine ---------------- *)
NoCall ==
  [op |-> "constructor", roomId |-> "", userId |-> 0, maxPlayers |-> <<>>,
   result |-> "void", ret |-> <<>>, num |-> 0, log |-> <<>>]

Init ==
  /\ rooms = <<>>
  /\ lastCall = NoCall
  /\ mutations = 0

(* One call of a method by the single caller (all methods are synchronous   *)
(* and run to completion): the registry becomes the outcome's registry and *)
(* the call with its return value is handed to the caller, who takes it    *)
(* (Return) before calling again.  The number of calls that change the     *)
(* registry is capped at MaxMutations.                                     *)
Call(op, roomId, userId, maxPlayersOpt, out) ==
  /\ lastCall = NoCall
  /\ out.rooms # rooms => mutations < MaxMutations
  /\ rooms' = out.rooms
  /\ mutations' = IF out.rooms # rooms THEN mutations + 1 ELSE mutations
  /\ lastCall' = [op |-> op, roomId |-> roomId, userId |-> userId,
                  maxPlayers |-> maxPlayersOpt, result |-> out.result,
                  ret |-> out.ret, num |-> out.num, log |-> out.log]

CreateRoom ==
  \E id \in RoomIds, ownerId \in UserIds, payload \in OwnerPayloads, mp \in MaxPlayersOptions :
    Call("createRoom", id, ownerId, mp, createRoom(rooms, id, ownerId, payload, mp))

GetRoom ==
  \E id \in RoomIds : Call("getRoom", id, 0, <<>>, getRoom(rooms, id))

DeleteRoom ==
  \E id \in RoomIds : Call("deleteRoom", id, 0, <<>>, deleteRoom(rooms, id))

ListRooms == Call("listRooms", "", 0, <<>>, listRooms(rooms))

Count == Call("count", "", 0, <<>>, count(rooms))

AddPlayerToRoom ==
  \E roomId \in RoomIds, userId \in UserIds, payload \in Payloads :
    Call("addPlayerToRoom", roomId, userId, <<>>,
         addPlayerToRoom(rooms, roomId, userId, payload))

RemovePlayerFromRoom ==
  \E roomId \in RoomIds, userId \in UserIds :
    Call("removePlayerFromRoom", roomId, userId, <<>>,
         removePlayerFromRoom(rooms, roomId, userId))

GetRoomByUserId ==
  \E userId \in UserIds :
    Call("getRoomByUserId", "", userId, <<>>, getRoomByUserId(rooms, userId))

SetRoomState ==
  \E roomId \in RoomIds, state \in RoomStates :
    Call("setRoomState", roomId, 0, <<>>, setRoomState(rooms, roomId, state))

SetRoomLocked ==
  \E roomId \in RoomIds, locked \in BOOLEAN :
    Call("setRoomLocked", roomId, 0, <<>>, setRoomLocked(rooms, roomId, locked))

SetRoomCycle ==
  \E roomId \in RoomIds, cycle \in BOOLEAN :
    Call("setRoomCycle", roomId, 0, <<>>, setRoomCycle(rooms, roomId, cycle))

SetPlayerReady ==
  \E roomId \in RoomIds, userId \in UserIds, ready \in BOOLEAN :
    Call("setPlayerReady", roomId, userId, <<>>,
         setPlayerReady(rooms, roomId, userId, ready))

IsRoomOwner ==
  \E roomId \in RoomIds, userId \in UserIds :
    Call("isRoomOwner", roomId, userId, <<>>, isRoomOwner(rooms, roomId, userId))

ChangeRoomOwner ==
  \E roomId \in RoomIds, newOwnerId \in UserIds :
    Call("changeRoomOwner", roomId, newOwnerId, <<>>,
         changeRoomOwner(rooms, roomId, newOwnerId))

CleanupEmptyRooms == Call("cleanupEmptyRooms", "", 0, <<>>, cleanupEmptyRooms(rooms))

Return ==
  /\ lastCall # NoCall
  /\ lastCall' = NoCall
  /\ UNCHANGED <<rooms, mutations>>

Next ==
  \/ CreateRoom
  \/ GetRoom
  \/ DeleteRoom
  \/ ListRooms
  \/ Count
  \/ AddPlayerToRoom
  \/ RemovePlayerFromRoom
  \/ GetRoomByUserId
  \/ SetRoomState
  \/ SetRoomLocked
  \/ SetRoomCycle
  \/ SetPlayerReady
  \/ IsRoomOwner
  \/ ChangeRoomOwner
  \/ CleanupEmptyRooms
  \/ Return

Spec == Init /\ [][Next]_vars

(* ======================= properties ======================= *)
Players(rs, id) == MapGet(rs, id).players

Members(rs, id) == {Players(rs, id)[i].k : i \in 1..Len(Players(rs, id))}

(* The rooms other than id are the same records in rs and rs2. *)
OthersUnchanged(rs, rs2, id) ==
  \A other \in RoomIds \ {id} :
    /\ MapHas(rs2, other) <=> MapHas(rs, other)
    /\ MapHas(rs, other) => MapGet(rs2, other) = MapGet(rs, other)

(* C1: in every reachable state, the ownerId of every registered room is a
   key of that room's players map. *)
OwnerIsMember ==
  \A i \in 1..Len(rooms) : MapHas(rooms[i].v.players, rooms[i].v.ownerId)

OwnerIsMember_Witness ==
  /\ lastCall.op = "removePlayerFromRoom"
  /\ lastCall.log = <<"Player removed from room", "Room owner changed">>
  /\ MapHas(rooms, lastCall.roomId)
  /\ MapGet(rooms, lastCall.roomId).ownerId # lastCall.userId

(* C2: in every reachable state, which is the state in which a call
   returns, no registered room has an empty players map; so a room whose
   last player removePlayerFromRoom removed is no longer registered. *)
NoEmptyRoom ==
  \A i \in 1..Len(rooms) : MapSize(rooms[i].v.players) > 0

NoEmptyRoom_Witness ==
  /\ lastCall.op = "removePlayerFromRoom"
  /\ lastCall.result = "true"
  /\ lastCall.log = <<"Player removed from room", "Room deleted">>
  /\ ~MapHas(rooms, lastCall.roomId)

(* C3: every registered room has players.size <= maxPlayers at all times;
   maxPlayers is the value given to createRoom (8 when omitted), the room
   starts with its owner as the one player, and maxPlayers never changes
   while the room stays registered. *)
CapacityRespected ==
  /\ [](\A i \in 1..Len(rooms) : MapSize(rooms[i].v.players) <= rooms[i].v.maxPlayers)
  /\ [][(lastCall'.op = "createRoom" /\ lastCall'.result = "room")
          => /\ MapHas(rooms', lastCall'.roomId)
             /\ MapGet(rooms', lastCall'.roomId).maxPlayers =
                  (IF lastCall'.maxPlayers = <<>> THEN 8 ELSE lastCall'.maxPlayers[1])
             /\ MapKeys(Players(rooms', lastCall'.roomId)) = <<lastCall'.userId>>]_vars
  /\ [][\A id \in RoomIds :
          (MapHas(rooms, id) /\ MapHas(rooms', id))
            => MapGet(rooms', id).maxPlayers = MapGet(rooms, id).maxPlayers]_vars

CapacityRespected_Witness ==
  /\ lastCall.op = "addPlayerToRoom"
  /\ lastCall.result = "true"
  /\ MapHas(rooms, lastCall.roomId)
  /\ MapGet(rooms, lastCall.roomId).maxPlayers = 2
  /\ MapSize(Players(rooms, lastCall.roomId)) = 2

(* C4: createRoom with an id that is already registered throws, returns no
   room, and leaves the whole registry (rooms, their order, owners, players,
   state and flags, hence count()) as it was. *)
DuplicateCreateThrows ==
  [][(lastCall'.op = "createRoom" /\ MapHas(rooms, lastCall'.roomId))
       => /\ lastCall'.result = "throw"
          /\ lastCall'.ret = <<>>
          /\ rooms' = rooms
          /\ count(rooms').num = count(rooms).num]_vars

DuplicateCreateThrows_Witness ==
  /\ lastCall.op = "createRoom"
  /\ lastCall.result = "throw"
  /\ MapHas(rooms, lastCall.roomId)
  /\ MapGet(rooms, lastCall.roomId).ownerId # lastCall.userId

(* C5: for a registered unlocked room, addPlayerToRoom of a user who is not
   a member returns true while players.size < maxPlayers; an addPlayerToRoom
   issued when players.size >= maxPlayers returns false and leaves the
   room's players map (keys, records, size) unchanged. *)
AdmissionByCapacity ==
  [][(lastCall'.op = "addPlayerToRoom" /\ MapHas(rooms, lastCall'.roomId))
       => LET id == lastCall'.roomId
              room == MapGet(rooms, id)
          IN /\ (~room.locked /\ ~MapHas(room.players, lastCall'.userId)
                   /\ MapSize(room.players) < room.maxPlayers)
                  => /\ lastCall'.result = "true"
                     /\ MapHas(Players(rooms', id), lastCall'.userId)
             /\ MapSize(room.players) >= room.maxPlayers
                  => /\ lastCall'.result = "false"
                     /\ MapHas(rooms', id)
                     /\ Players(rooms', id) = room.players]_vars

AdmissionByCapacity_Witness ==
  /\ lastCall.op = "addPlayerToRoom"
  /\ lastCall.result = "false"
  /\ MapHas(rooms, lastCall.roomId)
  /\ ~MapGet(rooms, lastCall.roomId).locked
  /\ ~MapHas(Players(rooms, lastCall.roomId), lastCall.userId)
  /\ MapGet(rooms, lastCall.roomId).maxPlayers = 2
  /\ MapSize(Players(rooms, lastCall.roomId)) = 2

(* C6 as stated: while the room is locked every addPlayerToRoom returns
   false and leaves membership unchanged, and on a room that
   setRoomLocked(roomId, false) has unlocked addPlayerToRoom returns true and
   inserts the player. *)
UnlockAlwaysAdmits ==
  [][(lastCall'.op = "addPlayerToRoom" /\ MapHas(rooms, lastCall'.roomId))
       => LET id == lastCall'.roomId
              room == MapGet(rooms, id)
          IN IF room.locked
               THEN /\ lastCall'.result = "false"
                    /\ rooms' = rooms
               ELSE /\ lastCall'.result = "true"
                    /\ MapHas(Players(rooms', id), lastCall'.userId)]_vars

(* C6 amended: while the room is locked every addPlayerToRoom returns false
   and leaves membership unchanged; setRoomLocked(roomId, false) on a
   registered room clears the flag, and on the unlocked room addPlayerToRoom
   returns true and inserts the player whenever players.size < maxPlayers
   (at capacity it still returns false). *)
LockBlocksAdmission ==
  /\ [][(lastCall'.op = "addPlayerToRoom" /\ MapHas(rooms, lastCall'.roomId))
          => LET id == lastCall'.roomId
                 room == MapGet(rooms, id)
             IN /\ room.locked
                     => /\ lastCall'.result = "false"
                        /\ rooms' = rooms
                /\ (~room.locked /\ MapSize(room.players) < room.maxPlayers)
                     => /\ lastCall'.result = "true"
                        /\ MapHas(Players(rooms', id), lastCall'.userId)
                /\ (~room.locked /\ MapSize(room.players) >= room.maxPlayers)
                     => /\ lastCall'.result = "false"
                        /\ rooms' = rooms]_vars
  /\ [][(lastCall'.op = "setRoomLocked" /\ MapHas(rooms, lastCall'.roomId))
          => /\ lastCall'.result = "true"
             /\ MapHas(rooms', lastCall'.roomId)
             /\ Players(rooms', lastCall'.roomId) = Players(rooms, lastCall'.roomId)]_vars

LockBlocksAdmission_Witness ==
  /\ lastCall.op = "addPlayerToRoom"
  /\ lastCall.result = "false"
  /\ lastCall.log = <<"Cannot add player to locked room">>
  /\ MapHas(rooms, lastCall.roomId)
  /\ MapGet(rooms, lastCall.roomId).locked
  /\ MapSize(Players(rooms, lastCall.roomId)) < MapGet(rooms, lastCall.roomId).maxPlayers

(* C7: removePlayerFromRoom of the only remaining player of a room returns
   true; afterwards getRoom of that id is absent, count() is one less, and
   every other room is unchanged. *)
LastPlayerRemovalDeletesRoom ==
  [][(/\ lastCall'.op = "removePlayerFromRoom"
      /\ MapHas(rooms, lastCall'.roomId)
      /\ MapKeys(Players(rooms, lastCall'.roomId)) = <<lastCall'.userId>>)
       => /\ lastCall'.result = "true"
          /\ getRoom(rooms', lastCall'.roomId).result = "undefined"
          /\ count(rooms').num = count(rooms).num - 1
          /\ OthersUnchanged(rooms, rooms', lastCall'.roomId)]_vars

LastPlayerRemovalDeletesRoom_Witness ==
  /\ lastCall.op = "removePlayerFromRoom"
  /\ lastCall.result = "true"
  /\ ~MapHas(rooms, lastCall.roomId)
  /\ Len(rooms) = 1
  /\ MapSize(rooms[1].v.players) = 2

(* C8: when removePlayerFromRoom removes the current owner and at least one
   player remains, afterwards isRoomOwner is false for the removed owner and
   true for exactly one userId, which is a remaining member of the room. *)
OwnerSuccession ==
  [][(/\ lastCall'.op = "removePlayerFromRoom"
      /\ MapHas(rooms, lastCall'.roomId)
      /\ MapGet(rooms, lastCall'.roomId).ownerId = lastCall'.userId
      /\ MapHas(Players(rooms, lastCall'.roomId), lastCall'.userId)
      /\ MapSize(Players(rooms, lastCall'.roomId)) >= 2)
       => LET id == lastCall'.roomId
              owners == {u \in UserIds : isRoomOwner(rooms', id, u).result = "true"}
          IN /\ lastCall'.result = "true"
             /\ isRoomOwner(rooms', id, lastCall'.userId).result = "false"
             /\ Cardinality(owners) = 1
             /\ owners \subseteq Members(rooms, id) \ {lastCall'.userId}
             /\ owners \subseteq Members(rooms', id)]_vars

OwnerSuccession_Witness ==
  /\ lastCall.op = "removePlayerFromRoom"
  /\ lastCall.result = "true"
  /\ "Room owner changed" \in {lastCall.log[i] : i \in 1..Len(lastCall.log)}
  /\ MapHas(rooms, lastCall.roomId)
  /\ MapSize(Players(rooms, lastCall.roomId)) >= 2
  /\ isRoomOwner(rooms, lastCall.roomId, lastCall.userId).result = "false"

(* C9: changeRoomOwner(roomId, u) returns true exactly when the room is
   registered and u is a member; it then sets ownerId to u and changes
   nothing else; otherwise it returns false and the registry is unchanged. *)
ChangeRoomOwnerContract ==
  [][lastCall'.op = "changeRoomOwner"
       => LET id == lastCall'.roomId
              u == lastCall'.userId
          IN IF MapHas(rooms, id) /\ u \in Members(rooms, id)
               THEN /\ lastCall'.result = "true"
                    /\ MapKeys(rooms') = MapKeys(rooms)
                    /\ MapGet(rooms', id) = [MapGet(rooms, id) EXCEPT !.ownerId = u]
                    /\ OthersUnchanged(rooms, rooms', id)
               ELSE /\ lastCall'.result = "false"
                    /\ rooms' = rooms]_vars

ChangeRoomOwnerContract_Witness ==
  /\ lastCall.op = "changeRoomOwner"
  /\ lastCall.result = "true"
  /\ MapHas(rooms, lastCall.roomId)
  /\ MapGet(rooms, lastCall.roomId).ownerId = lastCall.userId
  /\ MapKeys(Players(rooms, lastCall.roomId))[1] # lastCall.userId

(* C10: every method other than createRoom that is given an unregistered
   room id, and removePlayerFromRoom and setPlayerReady given a userId that
   is not a member of the room, raises no error, returns false (getRoom:
   undefined), and leaves the registry unchanged. *)
RoomAddressedOps ==
  {"deleteRoom", "addPlayerToRoom", "removePlayerFromRoom", "setRoomState",
   "setRoomLocked", "setRoomCycle", "setPlayerReady", "isRoomOwner", "changeRoomOwner"}

NotFoundIsNotAnError ==
  [][/\ (lastCall'.op \in RoomAddressedOps /\ ~MapHas(rooms, lastCall'.roomId))
          => (lastCall'.result = "false" /\ rooms' = rooms)
     /\ (lastCall'.op = "getRoom" /\ ~MapHas(rooms, lastCall'.roomId))
          => (lastCall'.result = "undefined" /\ rooms' = rooms)
     /\ (/\ lastCall'.op \in {"removePlayerFromRoom", "setPlayerReady"}
         /\ MapHas(rooms, lastCall'.roomId)
         /\ ~MapHas(Players(rooms, lastCall'.roomId), lastCall'.userId))
          => (lastCall'.result = "false" /\ rooms' = rooms)]_vars

NotFoundIsNotAnError_Witness ==
  /\ lastCall.op = "setPlayerReady"
  /\ lastCall.result = "false"
  /\ MapHas(rooms, lastCall.roomId)
  /\ ~MapHas(Players(rooms, lastCall.roomId), lastCall.userId)
  /\ Len(rooms) = 1

(* C11: for a registered, unlocked room with players.size < maxPlayers,
   addPlayerToRoom, called in any state in which a call can be made with
   any arguments, returns true and the user's entry afterwards holds the
   supplied info and connection with isReady = false; for a user who was
   already a member the entry is overwritten, players.size and the order of
   the keys stay as they were, and ownerId is unchanged; for a new user the
   key is appended. *)
Entry(payload) ==
  [user |-> payload.user, connectionId |-> payload.connectionId, isReady |-> FALSE]

AddInsertsOrOverwrites ==
  /\ [](\A id \in RoomIds, u \in UserIds, p \in Payloads :
          (/\ lastCall = NoCall
           /\ MapHas(rooms, id)
           /\ ~MapGet(rooms, id).locked
           /\ MapSize(Players(rooms, id)) < MapGet(rooms, id).maxPlayers)
            => LET out == addPlayerToRoom(rooms, id, u, p)
                   old == Players(rooms, id)
                   new == Players(out.rooms, id)
               IN /\ out.result = "true"
                  /\ MapHas(new, u)
                  /\ MapGet(new, u) = Entry(p)
                  /\ MapHas(old, u) => MapKeys(new) = MapKeys(old)
                  /\ ~MapHas(old, u) => MapKeys(new) = Append(MapKeys(old), u)
                  /\ \A v \in Members(rooms, id) \ {u} : MapGet(new, v) = MapGet(old, v)
                  /\ MapGet(out.rooms, id).ownerId = MapGet(rooms, id).ownerId)
  /\ [][(/\ lastCall'.op = "addPlayerToRoom"
         /\ MapHas(rooms, lastCall'.roomId)
         /\ ~MapGet(rooms, lastCall'.roomId).locked
         /\ MapSize(Players(rooms, lastCall'.roomId))
              < MapGet(rooms, lastCall'.roomId).maxPlayers)
          => LET id == lastCall'.roomId
                 u == lastCall'.userId
             IN /\ lastCall'.result = "true"
                /\ MapHas(rooms', id)
                /\ MapHas(Players(rooms', id), u)
                /\ ~MapGet(Players(rooms', id), u).isReady
                /\ \E p \in Payloads : MapGet(Players(rooms', id), u) = Entry(p)
                /\ MapHas(Players(rooms, id), u)
                     => MapSize(Players(rooms', id)) = MapSize(Players(rooms, id))
                /\ MapGet(rooms', id).ownerId = MapGet(rooms, id).ownerId]_vars

AddInsertsOrOverwrites_Witness ==
  /\ lastCall.op = "addPlayerToRoom"
  /\ lastCall.result = "true"
  /\ MapHas(rooms, lastCall.roomId)
  /\ LET players == Players(rooms, lastCall.roomId)
     IN /\ MapSize(players) = 2
        /\ MapKeys(players)[1] = lastCall.userId
        /\ MapGet(players, lastCall.userId) = [user |-> "b", connectionId |-> "c2",
                                               isReady |-> FALSE]
        /\ MapGet(players, MapKeys(players)[2]).isReady

(* C12: getRoomByUserId(u) returns undefined exactly when no registered
   room has u among its players; otherwise it returns the registered room
   that holds u and comes first in the registry's insertion order, also
   when several rooms hold u. *)
RoomsWith(rs, u) == {i \in 1..Len(rs) : MapHas(rs[i].v.players, u)}

FirstMatchWins ==
  [][lastCall'.op = "getRoomByUserId"
       => LET u == lastCall'.userId
              hits == RoomsWith(rooms, u)
          IN /\ rooms' = rooms
             /\ hits = {} <=> lastCall'.result = "undefined"
             /\ hits = {} => lastCall'.ret = <<>>
             /\ hits # {}
                  => /\ lastCall'.result = "room"
                     /\ \E i \in hits :
                          /\ \A j \in hits : i <= j
                          /\ lastCall'.ret = <<rooms[i].k>>
                          /\ rooms[i].v.id = rooms[i].k]_vars

FirstMatchWins_Witness ==
  /\ lastCall.op = "getRoomByUserId"
  /\ lastCall.result = "room"
  /\ Cardinality(RoomsWith(rooms, lastCall.userId)) = 2
  /\ lastCall.ret = <<"r2">>
  /\ MapKeys(rooms) = <<"r2", "r1">>

(* C13: cleanupEmptyRooms changes nothing when no registered room is empty,
   which is the case in every reachable state; and on a registry in which
   any set of rooms has been emptied it deletes exactly those rooms, so that
   a second call changes nothing more. *)
Emptied(rs, ids) ==
  [i \in 1..Len(rs) |->
     IF rs[i].k \in ids THEN [k |-> rs[i].k, v |-> [rs[i].v EXCEPT !.players = <<>>]]
     ELSE rs[i]]

CleanupIsIdempotent ==
  /\ [](\A ids \in SUBSET RoomIds :
          lastCall = NoCall =>
          LET once == cleanupEmptyRooms(Emptied(rooms, ids)).rooms
              twice == cleanupEmptyRooms(once).rooms
          IN /\ twice = once
             /\ once = SelectSeq(rooms, LAMBDA e : e.k \notin ids)
             /\ ids = {} => (once = rooms /\ count(once).num = count(rooms).num))
  /\ [][lastCall'.op = "cleanupEmptyRooms"
          => (rooms' = rooms /\ lastCall'.result = "void" /\ lastCall'.log = <<>>)]_vars

CleanupIsIdempotent_Witness ==
  /\ lastCall.op = "cleanupEmptyRooms"
  /\ lastCall.log = <<>>
  /\ Len(rooms) = 2
  /\ MapSize(rooms[1].v.players) = 1
  /\ MapSize(rooms[2].v.players) = 2

(* C14: deleteRoom(id) returns true exactly when id is registered; it then
   removes that room whatever its number of players: getRoom(id) is
   undefined, getRoomByUserId returns it for no user, count() is one less
   and the other rooms are unchanged and keep their order; for an
   unregistered id it returns false and nothing changes. *)
DeleteRoomContract ==
  [][lastCall'.op = "deleteRoom"
       => LET id == lastCall'.roomId
          IN IF MapHas(rooms, id)
               THEN /\ lastCall'.result = "true"
                    /\ getRoom(rooms', id).result = "undefined"
                    /\ \A u \in UserIds : getRoomByUserId(rooms', u).ret # <<id>>
                    /\ count(rooms').num = count(rooms).num - 1
                    /\ OthersUnchanged(rooms, rooms', id)
                    /\ rooms' = SelectSeq(rooms, LAMBDA e : e.k # id)
               ELSE /\ lastCall'.result = "false"
                    /\ rooms' = rooms]_vars

DeleteRoomContract_Witness ==
  /\ lastCall.op = "deleteRoom"
  /\ lastCall.result = "true"
  /\ lastCall.log = <<"Room deleted">>
  /\ ~MapHas(rooms, lastCall.roomId)
  /\ Len(rooms) = 1
  /\ MapSize(rooms[1].v.players) = 2
  /\ mutations = 4

(* C15: a successful setRoomState, setRoomLocked, setRoomCycle or
   setPlayerReady changes only the field it targets (state, locked, cycle,
   the named player's isReady) of the addressed room and stores the value
   it was given; everything else in the registry is unchanged, and
   setRoomState succeeds with any state value from any current state. *)
SettersTouchOneField ==
  /\ [](lastCall = NoCall =>
          \A id \in RoomIds :
            MapHas(rooms, id) =>
              LET room == MapGet(rooms, id)
              IN /\ \A st \in RoomStates :
                      /\ setRoomState(rooms, id, st).result = "true"
                      /\ setRoomState(rooms, id, st).rooms
                           = MapSet(rooms, id, [room EXCEPT !.state = st])
                 /\ \A b \in BOOLEAN :
                      /\ setRoomLocked(rooms, id, b).result = "true"
                      /\ setRoomLocked(rooms, id, b).rooms
                           = MapSet(rooms, id, [room EXCEPT !.locked = b])
                      /\ setRoomCycle(rooms, id, b).result = "true"
                      /\ setRoomCycle(rooms, id, b).rooms
                           = MapSet(rooms, id, [room EXCEPT !.cycle = b])
                      /\ \A u \in Members(rooms, id) :
                           /\ setPlayerReady(rooms, id, u, b).result = "true"
                           /\ MapGet(Players(setPlayerReady(rooms, id, u, b).rooms, id), u)
                                = [MapGet(room.players, u) EXCEPT !.isReady = b])
  /\ [][(/\ lastCall'.op \in {"setRoomState", "setRoomLocked", "setRoomCycle",
                              "setPlayerReady"}
         /\ lastCall'.result = "true")
          => LET id == lastCall'.roomId
                 u == lastCall'.userId
                 old == MapGet(rooms, id)
                 new == MapGet(rooms', id)
             IN /\ MapHas(rooms, id) /\ MapHas(rooms', id)
                /\ MapKeys(rooms') = MapKeys(rooms)
                /\ OthersUnchanged(rooms, rooms', id)
                /\ lastCall'.op = "setRoomState" => new = [old EXCEPT !.state = new.state]
                /\ lastCall'.op = "setRoomLocked" => new = [old EXCEPT !.locked = new.locked]
                /\ lastCall'.op = "setRoomCycle" => new = [old EXCEPT !.cycle = new.cycle]
                /\ lastCall'.op = "setPlayerReady"
                     => /\ new = [old EXCEPT !.players = new.players]
                        /\ MapKeys(new.players) = MapKeys(old.players)
                        /\ \A v \in Members(rooms, id) :
                             MapGet(new.players, v) =
                               IF v = u
                                 THEN [MapGet(old.players, v) EXCEPT
                                         !.isReady = MapGet(new.players, v).isReady]
                                 ELSE MapGet(old.players, v)]_vars

SettersTouchOneField_Witness ==
  /\ lastCall.op = "setPlayerReady"
  /\ lastCall.result = "true"
  /\ MapHas(rooms, lastCall.roomId)
  /\ LET room == MapGet(rooms, lastCall.roomId)
     IN /\ MapSize(room.players) = 2
        /\ room.locked
        /\ MapGet(room.players, lastCall.userId).isReady
        /\ \E v \in Members(rooms, lastCall.roomId) : ~MapGet(room.players, v).isReady

(* C16: from the empty registry, createRoom("r1", owner 1, maxPlayers 2)
   gives the room r1 with the one player 1; on it addPlayerToRoom("r1", 2)
   returns true, with count() = 1 and 2 players; then addPlayerToRoom("r1", 3)
   returns false and changes nothing; then removePlayerFromRoom("r1", 1)
   returns true and the owner becomes 2; then removePlayerFromRoom("r1", 2)
   returns true, getRoom("r1") is undefined and count() = 0. *)
ScenarioRoom(keys, owner) ==
  /\ MapKeys(rooms) = <<"r1">>
  /\ MapKeys(Players(rooms, "r1")) = keys
  /\ MapGet(rooms, "r1").ownerId = owner
  /\ MapGet(rooms, "r1").maxPlayers = 2
  /\ ~MapGet(rooms, "r1").locked

ScenarioCall(op, u) ==
  /\ lastCall'.op = op
  /\ lastCall'.roomId = "r1"
  /\ lastCall'.userId = u

EndToEndScenario ==
  /\ [][(rooms = <<>> /\ ScenarioCall("createRoom", 1) /\ lastCall'.maxPlayers = <<2>>)
          => (lastCall'.result = "room" /\ ScenarioRoom(<<1>>, 1)')]_vars
  /\ [][(ScenarioRoom(<<1>>, 1) /\ ScenarioCall("addPlayerToRoom", 2))
          => /\ lastCall'.result = "true"
             /\ count(rooms').num = 1
             /\ MapSize(MapValues(listRooms(rooms').rooms)[1].players) = 2
             /\ ScenarioRoom(<<1, 2>>, 1)']_vars
  /\ [][(ScenarioRoom(<<1, 2>>, 1) /\ ScenarioCall("addPlayerToRoom", 3))
          => (lastCall'.result = "false" /\ rooms' = rooms)]_vars
  /\ [][(ScenarioRoom(<<1, 2>>, 1) /\ ScenarioCall("removePlayerFromRoom", 1))
          => (lastCall'.result = "true" /\ ScenarioRoom(<<2>>, 2)')]_vars
  /\ [][(ScenarioRoom(<<2>>, 2) /\ ScenarioCall("removePlayerFromRoom", 2))
          => /\ lastCall'.result = "true"
             /\ getRoom(rooms', "r1").result = "undefined"
             /\ count(rooms').num = 0]_vars

EndToEndScenario_Witness ==
  /\ lastCall.op = "removePlayerFromRoom"
  /\ lastCall.roomId = "r1"
  /\ lastCall.userId = 2
  /\ lastCall.result = "true"
  /\ lastCall.log = <<"Player removed from room", "Room deleted">>
  /\ rooms = <<>>
  /\ mutations = 4

(* C17: when removePlayerFromRoom removes the owner and players remain, the
   new owner is the first of the remaining keys in the players map's
   iteration order, which is the order of first insertion: a new member is
   appended at the end and re-adding a member leaves the order as it was. *)
Without(keys, u) == SelectSeq(keys, LAMBDA k : k # u)

FirstRemainingSucceeds ==
  /\ [][(/\ lastCall'.op = "removePlayerFromRoom"
         /\ MapHas(rooms, lastCall'.roomId)
         /\ MapGet(rooms, lastCall'.roomId).ownerId = lastCall'.userId
         /\ MapSize(Players(rooms, lastCall'.roomId)) >= 2)
          => LET id == lastCall'.roomId
                 remaining == Without(MapKeys(Players(rooms, id)), lastCall'.userId)
             IN /\ MapHas(rooms', id)
                /\ MapKeys(Players(rooms', id)) = remaining
                /\ MapGet(rooms', id).ownerId = remaining[1]]_vars
  /\ [][(/\ lastCall'.op = "addPlayerToRoom"
         /\ lastCall'.result = "true")
          => LET id == lastCall'.roomId
                 u == lastCall'.userId
                 keys == MapKeys(Players(rooms, id))
             IN MapKeys(Players(rooms', id)) =
                  IF u \in Members(rooms, id) THEN keys ELSE Append(keys, u)]_vars

FirstRemainingSucceeds_Witness ==
  /\ lastCall.op = "removePlayerFromRoom"
  /\ lastCall.log = <<"Player removed from room", "Room owner changed">>
  /\ MapHas(rooms, lastCall.roomId)
  /\ LET keys == MapKeys(Players(rooms, lastCall.roomId))
     IN /\ Len(keys) = 2
        /\ keys[1] > keys[2]
        /\ MapGet(rooms, lastCall.roomId).ownerId = keys[1]

(* C18: addPlayerToRoom for a user who is already a member of a room that
   is full or locked returns false and leaves the registry, and with it the
   member's user, connectionId and isReady, unchanged. *)
NoReaddWhenFullOrLocked ==
  [][(/\ lastCall'.op = "addPlayerToRoom"
      /\ MapHas(rooms, lastCall'.roomId)
      /\ lastCall'.userId \in Members(rooms, lastCall'.roomId)
      /\ \/ MapSize(Players(rooms, lastCall'.roomId))
              >= MapGet(rooms, lastCall'.roomId).maxPlayers
         \/ MapGet(rooms, lastCall'.roomId).locked)
       => /\ lastCall'.result = "false"
          /\ rooms' = rooms
          /\ MapGet(Players(rooms', lastCall'.roomId), lastCall'.userId)
               = MapGet(Players(rooms, lastCall'.roomId), lastCall'.userId)]_vars

NoReaddWhenFullOrLocked_Witness ==
  /\ lastCall.op = "addPlayerToRoom"
  /\ lastCall.result = "false"
  /\ lastCall.log = <<"Cannot add player to full room">>
  /\ MapHas(rooms, lastCall.roomId)
  /\ lastCall.userId \in Members(rooms, lastCall.roomId)
  /\ ~MapGet(rooms, lastCall.roomId).locked
  /\ MapSize(Players(rooms, lastCall.roomId)) = MapGet(rooms, lastCall.roomId).maxPlayers
  /\ MapGet(Players(rooms, lastCall.roomId), lastCall.userId).isReady

(* C19: a room that leaves the registry, by deleteRoom or by the removal of
   its last player, leaves nothing behind: createRoom with an unregistered
   id, that of a former room included, succeeds and appends a room whose
   players are exactly the new owner with isReady = false, with locked =
   false, cycle = false, live = true, the initial state and the given
   maxPlayers. *)
FreshRoom(id, ownerId, payload, maxPlayers) ==
  [id |-> id, ownerId |-> ownerId,
   players |-> <<[k |-> ownerId, v |-> Entry(payload)]>>,
   maxPlayers |-> maxPlayers, state |-> "SelectChart",
   locked |-> FALSE, cycle |-> FALSE, live |-> TRUE]

RecreatedRoomIsFresh ==
  /\ [][(lastCall'.op = "createRoom" /\ ~MapHas(rooms, lastCall'.roomId))
          => /\ lastCall'.result = "room"
             /\ lastCall'.ret = <<lastCall'.roomId>>
             /\ \E p \in OwnerPayloads :
                  rooms' = Append(rooms,
                      [k |-> lastCall'.roomId,
                       v |-> FreshRoom(lastCall'.roomId, lastCall'.userId, p,
                                       IF lastCall'.maxPlayers = <<>> THEN DefaultMaxPlayers
                                       ELSE lastCall'.maxPlayers[1])])]_vars
  /\ [][(/\ MapHas(rooms, lastCall'.roomId)
         /\ \/ lastCall'.op = "deleteRoom"
            \/ /\ lastCall'.op = "removePlayerFromRoom"
               /\ MapKeys(Players(rooms, lastCall'.roomId)) = <<lastCall'.userId>>)
          => /\ ~MapHas(rooms', lastCall'.roomId)
             /\ rooms' = SelectSeq(rooms, LAMBDA e : e.k # lastCall'.roomId)]_vars

RecreatedRoomIsFresh_Witness ==
  /\ lastCall.op = "createRoom"
  /\ lastCall.result = "room"
  /\ MapKeys(rooms) = <<lastCall.roomId>>
  /\ mutations = 3

(* C20: the ownerId of a room that stays registered changes only in a
   changeRoomOwner call on that room that returns true, or in a
   removePlayerFromRoom call on that room that removes its current owner;
   every other call, on a locked or an unlocked room, leaves it as it was. *)
OwnerChangesOnlyTwoWays ==
  [][\A id \in RoomIds :
       (/\ MapHas(rooms, id)
        /\ MapHas(rooms', id)
        /\ MapGet(rooms', id).ownerId # MapGet(rooms, id).ownerId)
         => /\ lastCall'.roomId = id
            /\ lastCall'.result = "true"
            /\ \/ /\ lastCall'.op = "changeRoomOwner"
                  /\ MapGet(rooms', id).ownerId = lastCall'.userId
               \/ /\ lastCall'.op = "removePlayerFromRoom"
                  /\ lastCall'.userId = MapGet(rooms, id).ownerId
                  /\ MapSize(Players(rooms, id)) >= 2]_vars

OwnerChangesOnlyTwoWays_Witness ==
  /\ lastCall.op = "addPlayerToRoom"
  /\ lastCall.result = "true"
  /\ MapHas(rooms, lastCall.roomId)
  /\ MapGet(rooms, lastCall.roomId).ownerId = lastCall.userId
  /\ MapSize(Players(rooms, lastCall.roomId)) = 2
  /\ MapKeys(Players(rooms, lastCall.roomId))[2] = lastCall.userId

====
